---- MODULE Spec2Model ----
(***************************************************************************)
(* CEZ HDO integration (jbradle/ha_cez_distribuce): the entities of        *)
(* custom_components/cez_hdo/base_entity.py, the sensors of                *)
(* dev/cez_hdo/sensor.py and the daily refresh of dev/cez_hdo/__init__.py. *)
(*                                                                         *)
(* Time is counted in ticks of 1/TicksPerSecond second since               *)
(* 2024-01-01T00:00:00 (civil time, Europe/Prague, evaluated naively as    *)
(* the code does: both operands of every subtraction carry the same        *)
(* tzinfo).  downloader.py is not part of the sources; isHdo is modelled   *)
(* from section 4 of the specification.                                    *)
(***************************************************************************)
EXTENDS Integers, Sequences, FiniteSets, TLC

\* ------------------------------------------------------------- bounds
\* sub-second resolution of datetime.now()
TicksPerSecond == 2
\* the day the platform is set up, counted from 2024-01-01 (30 = 2024-01-31)
FirstDay == 30
\* number of days the clock may advance past FirstDay
MaxDays == 2
\* ticks that may pass between the state snapshot and the query's own now()
MaxDrift == 1
\* days after the fetch day for which the API publishes windows
PublishedAhead == 1
\* lifecycle calls (async_added_to_hass, async_will_remove_from_hass) made on
\* one entity object
MaxCalls == 3
\* async_setup coroutines that may be in flight in one process
MaxSetups == 2

\* ------------------------------------------------------------- time
SecondsPerDay == 24 * 60 * 60
TicksPerDay == SecondsPerDay * TicksPerSecond
HMS(h, m, s) == ((h * 60 + m) * 60 + s) * TicksPerSecond

\* python None, and the ValueError of datetime.replace(day=...)
None == 0 - 1
ValueError == 0 - 2

DayOf(t) == t \div TicksPerDay
TodOf(t) == t % TicksPerDay

\* calendar of 2024; the year never changes inside the run
DaysInMonth(m) ==
  CASE m \in {1, 3, 5, 7, 8, 10, 12} -> 31
    [] m \in {4, 6, 9, 11} -> 30
    [] OTHER -> 29

RECURSIVE DateFrom(_, _)
DateFrom(m, d) ==
  IF d >= DaysInMonth(m) /\ m < 12 THEN DateFrom(m + 1, d - DaysInMonth(m))
  ELSE [month |-> m, day |-> d + 1]

\* datetime.date of a day number
DateOf(dayno) == DateFrom(1, dayno)

RECURSIVE DaysBefore(_)
DaysBefore(m) == IF m = 1 THEN 0 ELSE DaysBefore(m - 1) + DaysInMonth(m - 1)

\* date.toordinal(), relative to 2024-01-01
Ordinal(date) == DaysBefore(date.month) + date.day - 1

\* datetime.combine(date, time) as a record; the instant it denotes
Combine(date, tod) == [date |-> date, tod |-> tod]
InstantOf(dt) == Ordinal(dt.date) * TicksPerDay + dt.tod
NowDt(t) == Combine(DateOf(DayOf(t)), TodOf(t))

SetMax(S) == CHOOSE x \in S : \A y \in S : y <= x
SetMin(S) == CHOOSE x \in S : \A y \in S : x <= y

\* ------------------------------------------------------------- payload
\* _response_data: nothing, a JSON document without usable signal entries, or
\* a schedule published on day `anchor` following one of the Patterns
NoData == [kind |-> "none", pattern |-> "none", anchor |-> 0]
JunkData == [kind |-> "junk", pattern |-> "none", anchor |-> 0]
Sched(pattern, anchor) == [kind |-> "sched", pattern |-> pattern, anchor |-> anchor]
Patterns == {"day", "night"}

\* signal codes, in lexicographic order
SignalCodes == <<"X", "Y", "Z">>
CodeRank(c) == CHOOSE i \in 1..Len(SignalCodes) : SignalCodes[i] = c
\* the entity's configured signal: "" is signal=None
NoSignal == ""

PublishedDays(anchor) == (anchor - 1)..(anchor + PublishedAhead)

\* the signal entries (SignalWindow: signal code, day, ranges) of a payload
SignalWindows(p) ==
  IF p.kind # "sched" THEN {}
  ELSE IF p.pattern = "day" THEN
    { [signal_code |-> "X", day |-> d, ranges |-> << <<HMS(8, 0, 0), HMS(20, 0, 0)>> >>]
        : d \in PublishedDays(p.anchor) }
    \cup { [signal_code |-> "Y", day |-> p.anchor,
            ranges |-> << <<HMS(10, 0, 0), HMS(21, 0, 0)>> >>] }
  ELSE
    { [signal_code |-> "X", day |-> d, ranges |-> << <<HMS(22, 0, 0), HMS(6, 0, 0)>> >>]
        : d \in PublishedDays(p.anchor) }

\* ------------------------------------------------------------- Schedule Selector
DistinctDays(W, c) == Cardinality({w.day : w \in {v \in W : v.signal_code = c}})

\* the code with the most distinct days, ties to the lexicographically smallest
DefaultSignal(W) ==
  LET codes == {w.signal_code : w \in W}
  IN CHOOSE c \in codes : \A o \in codes :
       \/ DistinctDays(W, c) > DistinctDays(W, o)
       \/ DistinctDays(W, c) = DistinctDays(W, o) /\ CodeRank(c) <= CodeRank(o)

\* select(payload, preferred_signal?) restricted to yesterday, today, tomorrow
Select(p, preferred, t) ==
  LET W == SignalWindows(p)
      codes == {w.signal_code : w \in W}
      code == IF preferred # NoSignal THEN preferred
              ELSE IF W = {} THEN NoSignal ELSE DefaultSignal(W)
  IN IF code \notin codes THEN {}
     ELSE {w \in W : w.signal_code = code
                      /\ w.day \in (DayOf(t) - 1)..(DayOf(t) + 1)}

\* ------------------------------------------------------------- Tariff Evaluator
\* step 1: absolute [s, e) pairs, a range whose end is not after its start
\* ends on the next day
Flatten(R) ==
  UNION { { [s |-> w.day * TicksPerDay + w.ranges[i][1],
             e |-> IF w.ranges[i][2] > w.ranges[i][1]
                   THEN w.day * TicksPerDay + w.ranges[i][2]
                   ELSE (w.day + 1) * TicksPerDay + w.ranges[i][2]]
            : i \in 1..Len(w.ranges) } : w \in R }

\* step 2: the merged interval around an interval, touching ones included
RECURSIVE MergedEnd(_, _)
MergedEnd(I, e) ==
  LET ext == {i \in I : i.s <= e /\ e < i.e}
  IN IF ext = {} THEN e ELSE MergedEnd(I, SetMax({i.e : i \in ext}))

RECURSIVE MergedStart(_, _)
MergedStart(I, s) ==
  LET ext == {i \in I : i.s < s /\ s <= i.e}
  IN IF ext = {} THEN s ELSE MergedStart(I, SetMin({i.s : i \in ext}))

Unresolved ==
  [low_active |-> FALSE, low_start |-> None, low_end |-> None, low_duration |-> None,
   high_active |-> FALSE, high_start |-> None, high_end |-> None, high_duration |-> None]

\* the absolute bounds [s, e) of the period (low or high) that contains t, and
\* whether a low interval follows a high one
PeriodAround(R, t) ==
  LET I == Flatten(R)
      in == {i \in I : i.s <= t /\ t < i.e}
      T0 == (DayOf(t) - 1) * TicksPerDay
      T1 == (DayOf(t) + 2) * TicksPerDay
  IN IF in # {}
     THEN LET i0 == CHOOSE i \in in : TRUE
          IN [low |-> TRUE, s |-> MergedStart(I, i0.s), e |-> MergedEnd(I, i0.e),
              followed |-> TRUE]
     ELSE [low |-> FALSE,
           s |-> SetMax({i.e : i \in {j \in I : j.e <= t}} \cup {T0}),
           e |-> SetMin({i.s : i \in {j \in I : j.s > t}} \cup {T1}),
           followed |-> {j \in I : j.s > t} # {}]

\* evaluate(resolved, reference_instant): steps 3-6
Evaluate(R, t) ==
  IF R = {} THEN Unresolved
  ELSE LET p == PeriodAround(R, t)
       IN IF p.low
          THEN [low_active |-> TRUE, low_start |-> TodOf(p.s), low_end |-> TodOf(p.e),
                low_duration |-> p.e - p.s,
                high_active |-> FALSE, high_start |-> TodOf(p.e), high_end |-> None,
                high_duration |-> None]
          ELSE [low_active |-> FALSE,
                low_start |-> IF p.followed THEN TodOf(p.e) ELSE None,
                low_end |-> None, low_duration |-> None,
                high_active |-> TRUE, high_start |-> TodOf(p.s), high_end |-> TodOf(p.e),
                high_duration |-> p.e - p.s]

\* downloader.isHdo(payload, preferred_signal) evaluated at instant t
isHdo(p, preferred, t) == Evaluate(Select(p, preferred, t), t)

\* ------------------------------------------------------------- entities
\* one CezHdoSensor (CezHdoBaseEntity.update) and one time-remaining sensor
\* (CezHdoFrequentUpdateEntity.update), as setup_platform creates them
Entities == <<"LowTariffStart", "LowTariffRemaining">>
EntitySet == {Entities[i] : i \in 1..Len(Entities)}
IsFrequent(e) == e = "LowTariffRemaining"

MIN_TIME_BETWEEN_SCANS == 86400

\* the four cache paths of update(), in the order of the list
CachePaths == 1..4
NoFile == [kind |-> "absent", pattern |-> "none", anchor |-> 0]
Corrupt == [kind |-> "corrupt", pattern |-> "none", anchor |-> 0]

\* what one requests.post attempt ends in
ApiOutcomes == {"ok", "empty_signals", "unparsable", "502", "other_status",
                "request_exc", "other_exc"}

VARIABLES
  now,            \* the wall clock, in ticks
  conf_signal,    \* the platform's configured signal (CONF_SIGNAL)
  ent,            \* the fields of each entity object
  cache,          \* the file at each cache path
  hass_entities,  \* hass.data["cez_hdo"]["entities"]
  daily_refresh,  \* async_track_time_change(daily_data_refresh) is registered
  refresh_due,    \* the 01:00:00 callback is scheduled and has not run yet
  frontend,       \* _FRONTEND_REGISTERED and the URLs given to add_extra_js_url
  last            \* the last operation and what it returned

vars == <<now, conf_signal, ent, cache, hass_entities, daily_refresh, refresh_due,
          frontend, last>>

\* ------------------------------------------------------------- update()
\* _load_from_cache: the file exists and json.loads accepts it
CacheLoads(f) == f.kind \in {"junk", "sched"}

\* mutant: the cache loop keeps going and the last loadable path wins
FirstLoadable_LastWins(cch) ==
  IF \E p \in CachePaths : CacheLoads(cch[p])
  THEN SetMax({p \in CachePaths : CacheLoads(cch[p])}) ELSE 0

FirstLoadable(cch) ==
  IF \E p \in CachePaths : CacheLoads(cch[p])
  THEN SetMin({p \in CachePaths : CacheLoads(cch[p])}) ELSE 0

\* mutant: the API loop retries after any failed first attempt
RECURSIVE ApiLoop_RetryAnyFailure(_, _)
ApiLoop_RetryAnyFailure(attempt, responses) ==
  LET r == responses[attempt + 1]
  IN IF r = "ok" THEN [stored |-> TRUE, requests |-> attempt + 1]
     ELSE IF attempt = 0 THEN ApiLoop_RetryAnyFailure(1, responses)
     ELSE [stored |-> FALSE, requests |-> attempt + 1]

\* the API loop: up to 2 attempts, the second only after a 502 or a
\* requests.RequestException on the first
RECURSIVE ApiLoop(_, _)
ApiLoop(attempt, responses) ==
  LET r == responses[attempt + 1]
  IN IF r = "ok" THEN [stored |-> TRUE, requests |-> attempt + 1]
     ELSE IF r \in {"502", "request_exc"} /\ attempt = 0 THEN ApiLoop(1, responses)
     ELSE [stored |-> FALSE, requests |-> attempt + 1]

\* the API's answers to the two attempts; the second is read only after a
\* retried first one
ApiRuns ==
  {r \in [1..2 -> ApiOutcomes] : r[1] \notin {"502", "request_exc"} => r[2] = r[1]}

\* mutant: the cache save loop without its break, the last write stands
FirstWritten_LastPath(writable) ==
  IF writable = {} THEN 0 ELSE SetMax(writable)

\* the cache save loop: the first path whose write succeeds, 0 when none does
FirstWritten(writable) ==
  IF writable = {} THEN 0 ELSE SetMin(writable)

NotRun == [ran |-> FALSE, cache_hit |-> 0, requests |-> 0, stored |-> FALSE, wrote |-> 0]

\* the body of CezHdoBaseEntity.update: the entity's fields, the cache files
\* and what the run did
UpdateBody(er, cch, responses, payload, writable) ==
  LET hit == FirstLoadable(cch)
      api == ApiLoop(0, responses)
      w == FirstWritten(writable)
  IN IF hit # 0
     THEN [er |-> [er EXCEPT !.response_data = cch[hit], !.last_update_success = TRUE],
           cache |-> cch,
           out |-> [ran |-> TRUE, cache_hit |-> hit, requests |-> 0,
                    stored |-> FALSE, wrote |-> 0]]
     ELSE IF api.stored
     THEN [er |-> [er EXCEPT !.response_data = payload, !.last_update_success = TRUE],
           cache |-> IF w # 0 THEN [cch EXCEPT ![w] = payload] ELSE cch,
           out |-> [ran |-> TRUE, cache_hit |-> 0, requests |-> api.requests,
                    stored |-> TRUE, wrote |-> w]]
     ELSE [er |-> [er EXCEPT !.last_update_success = FALSE],
           cache |-> cch,
           out |-> [ran |-> TRUE, cache_hit |-> 0, requests |-> api.requests,
                    stored |-> FALSE, wrote |-> 0]]

\* mutant: Throttle that lets every later call through
ThrottleOpen_NoMinTime(er, t) ==
  \/ er.throttle = None
  \/ t - er.throttle > 0

\* Throttle(MIN_TIME_BETWEEN_SCANS): the body runs on the first call and when
\* more than min_time has passed since the last run
ThrottleOpen(er, t) ==
  \/ er.throttle = None
  \/ t - er.throttle > MIN_TIME_BETWEEN_SCANS * TicksPerSecond

\* entity.update() as called on entity e: the throttled body for a
\* CezHdoSensor, the empty override for a time-remaining sensor
Update(e, er, cch, t, env) ==
  IF IsFrequent(e) THEN [er |-> er, cache |-> cch, out |-> NotRun]
  ELSE IF ThrottleOpen(er, t)
  THEN LET u == UpdateBody(er, cch, env.responses, env.payload, env.writable)
       IN [er |-> [u.er EXCEPT !.throttle = t], cache |-> u.cache, out |-> u.out]
  ELSE [er |-> er, cache |-> cch, out |-> NotRun]

\* the sets of cache paths that may be writable when update() saves
WritableSets == {{}, {3, 4}, CachePaths}

\* the surroundings of one update() call at instant t: the API's answers, the
\* schedule it publishes and the cache paths that can be written.  Only what
\* the call reads is enumerated.
Envs(reads_api, t) ==
  IF ~reads_api
  THEN {[responses |-> [i \in 1..2 |-> "other_exc"], payload |-> Sched("day", DayOf(t)),
         writable |-> {}]}
  ELSE {[responses |-> r, payload |-> Sched(pat, DayOf(t)), writable |-> w]
          : r \in {x \in ApiRuns : ~ApiLoop(0, x).stored}, pat \in {"day"}, w \in {{}}}
       \cup {[responses |-> r, payload |-> Sched(pat, DayOf(t)), writable |-> w]
          : r \in {x \in ApiRuns : ApiLoop(0, x).stored}, pat \in Patterns,
            w \in WritableSets}

\* whether update() on entity e would reach the API loop
ReadsApi(e, er, cch, t) ==
  ~IsFrequent(e) /\ ThrottleOpen(er, t) /\ FirstLoadable(cch) = 0

\* ------------------------------------------------------------- countdown queries
\* mutant: _get_hdo_data without the _last_update_success test
get_hdo_data_IgnoresSuccess(er, signal, t) ==
  IF er.response_data = NoData THEN Unresolved
  ELSE isHdo(er.response_data, signal, t)

\* mutant: _get_hdo_data with the _last_update_success test inverted
get_hdo_data_InvertedSuccess(er, signal, t) ==
  IF er.response_data = NoData \/ er.last_update_success THEN Unresolved
  ELSE isHdo(er.response_data, signal, t)

\* _get_hdo_data of an entity with fields er, evaluated at instant t
get_hdo_data(er, signal, t) ==
  IF er.response_data = NoData \/ ~er.last_update_success THEN Unresolved
  ELSE isHdo(er.response_data, signal, t)

\* the number of times one _get_hdo_data() call hands the raw payload to
\* downloader.isHdo
isHdoCalls(er) ==
  IF er.response_data = NoData \/ ~er.last_update_success THEN 0 ELSE 1

\* datetime.replace(day=day + 1) raises ValueError when the month has no such
\* day; otherwise the date is the next day of the same month
ReplaceNextDay(dt) == [dt EXCEPT !.date.day = dt.date.day + 1]
Raises(dt) == dt.date.day > DaysInMonth(dt.date.month)

\* int(timedelta.total_seconds()): truncation toward zero
IntSeconds(ticks) ==
  IF ticks >= 0 THEN ticks \div TicksPerSecond ELSE 0 - ((0 - ticks) \div TicksPerSecond)

Max0(x) == IF x > 0 THEN x ELSE 0

\* mutant: the end read from hdo_data[1] (the start) instead of hdo_data[2]
get_low_tariff_remaining_seconds_ReadsStart(hdo, ref) ==
  IF ~hdo.low_active \/ hdo.low_start = None THEN None
  ELSE LET nowdt == NowDt(ref)
           end_today == Combine(nowdt.date, hdo.low_start)
           target == IF InstantOf(end_today) <= ref THEN ReplaceNextDay(end_today)
                     ELSE end_today
       IN IF Raises(target) THEN ValueError
          ELSE Max0(IntSeconds(InstantOf(target) - ref))

\* each query reads the state at instant t, then its own now() at instant ref
get_low_tariff_remaining_seconds(hdo, ref) ==
  IF ~hdo.low_active \/ hdo.low_end = None THEN None
  ELSE LET nowdt == NowDt(ref)
           end_today == Combine(nowdt.date, hdo.low_end)
           target == IF InstantOf(end_today) <= ref THEN ReplaceNextDay(end_today)
                     ELSE end_today
       IN IF Raises(target) THEN ValueError
          ELSE Max0(IntSeconds(InstantOf(target) - ref))

\* mutant: no roll-over to the next day when the end is not after now
get_high_tariff_remaining_seconds_NoRollover(hdo, ref) ==
  IF ~hdo.high_active \/ hdo.high_end = None THEN None
  ELSE LET nowdt == NowDt(ref)
           end_today == Combine(nowdt.date, hdo.high_end)
       IN Max0(IntSeconds(InstantOf(end_today) - ref))

get_high_tariff_remaining_seconds(hdo, ref) ==
  IF ~hdo.high_active \/ hdo.high_end = None THEN None
  ELSE LET nowdt == NowDt(ref)
           end_today == Combine(nowdt.date, hdo.high_end)
           target == IF InstantOf(end_today) <= ref THEN ReplaceNextDay(end_today)
                     ELSE end_today
       IN IF Raises(target) THEN ValueError
          ELSE Max0(IntSeconds(InstantOf(target) - ref))

\* mutant: the low_tariff_active test dropped
get_next_low_tariff_seconds_NoActiveTest(hdo, ref) ==
  IF hdo.low_start = None THEN None
  ELSE LET nowdt == NowDt(ref)
           start_today == Combine(nowdt.date, hdo.low_start)
           target == IF InstantOf(start_today) <= ref THEN ReplaceNextDay(start_today)
                     ELSE start_today
       IN IF Raises(target) THEN ValueError
          ELSE Max0(IntSeconds(InstantOf(target) - ref))

get_next_low_tariff_seconds(hdo, ref) ==
  IF hdo.low_active \/ hdo.low_start = None THEN None
  ELSE LET nowdt == NowDt(ref)
           start_today == Combine(nowdt.date, hdo.low_start)
           target == IF InstantOf(start_today) <= ref THEN ReplaceNextDay(start_today)
                     ELSE start_today
       IN IF Raises(target) THEN ValueError
          ELSE Max0(IntSeconds(InstantOf(target) - ref))

\* mutant: get_next_high_tariff_seconds that always moves the target to the
\* next day
get_next_high_tariff_seconds_AlwaysNextDay(hdo, ref) ==
  IF hdo.high_active \/ hdo.high_start = None THEN None
  ELSE LET nowdt == NowDt(ref)
           start_today == Combine(nowdt.date, hdo.high_start)
           target == ReplaceNextDay(start_today)
       IN IF Raises(target) THEN ValueError
          ELSE Max0(IntSeconds(InstantOf(target) - ref))

get_next_high_tariff_seconds(hdo, ref) ==
  IF hdo.high_active \/ hdo.high_start = None THEN None
  ELSE LET nowdt == NowDt(ref)
           start_today == Combine(nowdt.date, hdo.high_start)
           target == IF InstantOf(start_today) <= ref THEN ReplaceNextDay(start_today)
                     ELSE start_today
       IN IF Raises(target) THEN ValueError
          ELSE Max0(IntSeconds(InstantOf(target) - ref))

\* ------------------------------------------------------------- the clock
\* the instants the clock stops at on each day
Tods == {HMS(1, 0, 0), HMS(5, 59, 59), HMS(6, 0, 0), HMS(8, 0, 0), HMS(10, 0, 0),
         HMS(19, 59, 59), HMS(20, 0, 0), HMS(21, 0, 0), HMS(22, 0, 0), HMS(23, 59, 59)}
LastDay == FirstDay + MaxDays
ClockGrid == {d * TicksPerDay + tod : d \in FirstDay..LastDay, tod \in Tods}

\* ------------------------------------------------------------- Init
NewEntity ==
  [created |-> FALSE, response_data |-> NoData, last_update_success |-> FALSE,
   last_update_time |-> None, throttle |-> None, added |-> FALSE,
   update_interval_unsub |-> None, timers |-> <<>>, calls |-> <<>>]

\* the cache files found at start: none, or a debug file that is JSON but not
\* a schedule behind an unreadable one
InitCaches ==
  {[p \in CachePaths |-> NoFile],
   [p \in CachePaths |-> IF p = 1 THEN Corrupt ELSE IF p = 2 THEN JunkData ELSE NoFile]}

Init ==
  /\ now = FirstDay * TicksPerDay
  /\ conf_signal \in {NoSignal, "X", "Z"}
  /\ ent = [e \in EntitySet |-> NewEntity]
  /\ cache \in InitCaches
  /\ hass_entities = <<>>
  /\ daily_refresh = FALSE
  /\ refresh_due = FALSE
  /\ frontend = [registered |-> FALSE, urls |-> 0]
  /\ last = [op |-> "init"]

\* ------------------------------------------------------------- actions
\* a poll of an added entity whose should_poll is True and whose throttle is
\* open: the platform polls every 30 s, so it runs before the next clock stop
PollDue == \E e \in EntitySet : ent[e].added /\ ~IsFrequent(e) /\ ThrottleOpen(ent[e], now)

Tick ==
  /\ ~refresh_due
  /\ ~PollDue
  /\ \E g \in ClockGrid :
       /\ g > now
       /\ \A h \in ClockGrid : h > now => g <= h
       /\ now' = g
       /\ refresh_due' = (daily_refresh /\ TodOf(g) = HMS(1, 0, 0))
  /\ last' = [op |-> "tick"]
  /\ UNCHANGED <<conf_signal, ent, cache, hass_entities, daily_refresh, frontend>>

\* mutant: _ensure_frontend_card without the _FRONTEND_REGISTERED test
EnsureFrontendCard_NoFlagTest(fr) ==
  [fr EXCEPT !.registered = TRUE, !.urls = fr.urls + 1]

\* _ensure_frontend_card after the file is deployed: add_extra_js_url unless
\* _FRONTEND_REGISTERED, which is then set
EnsureFrontendCard(fr) ==
  IF fr.registered THEN fr ELSE [fr EXCEPT !.registered = TRUE, !.urls = fr.urls + 1]

async_setup ==
  /\ ~daily_refresh
  /\ daily_refresh' = TRUE
  /\ frontend' = EnsureFrontendCard(EnsureFrontendCard(frontend))
  /\ last' = [op |-> "async_setup"]
  /\ UNCHANGED <<now, conf_signal, ent, cache, hass_entities, refresh_due>>

\* CezHdoBaseEntity.__init__ ends in self.update(), dispatched on the class
Construct(e, cch, t, env) ==
  Update(e, [NewEntity EXCEPT !.created = TRUE], cch, t, env)

\* mutant: async_added_to_hass that starts the timer and drops its unsub
AddedToHass_UnsubNotKept(e, er) ==
  IF IsFrequent(e)
  THEN [er EXCEPT !.added = TRUE, !.calls = Append(@, "add"),
                  !.timers = Append(@, 0)]
  ELSE [er EXCEPT !.added = TRUE, !.calls = Append(@, "add")]

\* async_added_to_hass on the entity's own fields: a time-remaining sensor
\* starts a new 1-second timer and keeps its unsub in _update_interval_unsub.
\* timers[i] counts the cancellations of the i-th timer the entity started;
\* calls is the history of the entity's lifecycle calls.
AddedToHass(e, er) ==
  IF IsFrequent(e)
  THEN [er EXCEPT !.added = TRUE, !.calls = Append(@, "add"),
                  !.timers = Append(@, 0),
                  !.update_interval_unsub = Len(er.timers) + 1]
  ELSE [er EXCEPT !.added = TRUE, !.calls = Append(@, "add")]

\* mutant: registration without the membership test
Register_NoMembershipTest(seq, e) == Append(seq, e)

\* async_added_to_hass on hass.data["cez_hdo"]["entities"]
Register(seq, e) ==
  IF \E i \in 1..Len(seq) : seq[i] = e THEN seq ELSE Append(seq, e)

\* setup_platform: the entities are constructed in the order of the list, then
\* add_entities(entities, True) updates each one and adds it to hass
RECURSIVE SetupFrom(_, _, _, _, _, _)
SetupFrom(i, ents, cch, reg, outs, env) ==
  IF i > Len(Entities) THEN [ent |-> ents, cache |-> cch, reg |-> reg, out |-> outs]
  ELSE LET e == Entities[i]
           c == Construct(e, cch, now, env)
           u == Update(e, c.er, c.cache, now, env)
       IN SetupFrom(i + 1, [ents EXCEPT ![e] = AddedToHass(e, u.er)], u.cache,
                    Register(reg, e), [outs EXCEPT ![e] = c.out], env)

setup_platform ==
  /\ daily_refresh
  /\ DayOf(now) = FirstDay
  /\ \A e \in EntitySet : ~ent[e].created
  /\ \E env \in Envs(FirstLoadable(cache) = 0, now) :
       LET r == SetupFrom(1, ent, cache, hass_entities, [e \in EntitySet |-> NotRun], env)
       IN /\ ent' = r.ent
          /\ cache' = r.cache
          /\ hass_entities' = r.reg
          /\ last' = [op |-> "setup_platform",
                      cache_loadable |-> FirstLoadable(cache) # 0,
                      api_ok |-> ApiLoop(0, env.responses).stored,
                      out |-> r.out]
  /\ UNCHANGED <<now, conf_signal, daily_refresh, refresh_due, frontend>>

\* list.remove: the first occurrence
RemoveFirst(seq, e) ==
  LET i == SetMin({j \in 1..Len(seq) : seq[j] = e})
  IN [j \in 1..(Len(seq) - 1) |-> IF j < i THEN seq[j] ELSE seq[j + 1]]

\* async_will_remove_from_hass on the entity's own fields: a time-remaining
\* sensor calls the unsub it holds, and keeps holding it
WillRemoveFromHass(e, er) ==
  IF IsFrequent(e) /\ er.update_interval_unsub # None
  THEN [er EXCEPT !.added = FALSE, !.calls = Append(@, "remove"),
                  !.timers[er.update_interval_unsub] = @ + 1]
  ELSE [er EXCEPT !.added = FALSE, !.calls = Append(@, "remove")]

\* async_will_remove_from_hass on hass.data["cez_hdo"]["entities"]
Unregister(seq, e) ==
  IF \E i \in 1..Len(seq) : seq[i] = e THEN RemoveFirst(seq, e) ELSE seq

async_will_remove_from_hass(e) ==
  /\ ent[e].added
  /\ ent' = [ent EXCEPT ![e] = WillRemoveFromHass(e, ent[e])]
  /\ hass_entities' = Unregister(hass_entities, e)
  /\ last' = [op |-> "async_will_remove_from_hass", e |-> e]
  /\ UNCHANGED <<now, conf_signal, cache, daily_refresh, refresh_due, frontend>>

\* the platform's poll of an added entity whose should_poll is True
Poll(e) ==
  /\ ent[e].added /\ ~IsFrequent(e)
  /\ \E env \in Envs(ReadsApi(e, ent[e], cache, now), now) :
       LET u == Update(e, ent[e], cache, now, env)
       IN /\ ent' = [ent EXCEPT ![e] = u.er]
          /\ cache' = u.cache
          /\ last' = [op |-> "poll", e |-> e, out |-> u.out]
  /\ UNCHANGED <<now, conf_signal, hass_entities, daily_refresh, refresh_due, frontend>>

\* daily_data_refresh: for every registered entity, _last_update_time = None
\* and async_schedule_update_ha_state(True), which calls entity.update()
RECURSIVE RefreshFrom(_, _, _, _, _)
RefreshFrom(i, ents, cch, outs, env) ==
  IF i > Len(hass_entities) THEN [ent |-> ents, cache |-> cch, out |-> outs]
  ELSE LET e == hass_entities[i]
           u == Update(e, [ents[e] EXCEPT !.last_update_time = None], cch, now, env)
       IN RefreshFrom(i + 1, [ents EXCEPT ![e] = u.er], u.cache,
                      [outs EXCEPT ![e] = u.out], env)

daily_data_refresh ==
  /\ refresh_due
  /\ refresh_due' = FALSE
  /\ \E env \in Envs(\E i \in 1..Len(hass_entities) :
                        ReadsApi(hass_entities[i], ent[hass_entities[i]], cache, now),
                      now) :
       LET r == RefreshFrom(1, ent, cache, [e \in EntitySet |-> NotRun], env)
       IN /\ ent' = r.ent
          /\ cache' = r.cache
          /\ last' = [op |-> "daily_data_refresh", entities |-> hass_entities,
                      cache_loadable |-> FirstLoadable(cache) # 0, out |-> r.out]
  /\ UNCHANGED <<now, conf_signal, hass_entities, daily_refresh, frontend>>

\* the value a countdown query returns for the state snapshot hdo when its own
\* now() reads ref
QueryValue(op, hdo, ref) ==
  CASE op = "get_low_tariff_remaining_seconds" -> get_low_tariff_remaining_seconds(hdo, ref)
    [] op = "get_high_tariff_remaining_seconds" -> get_high_tariff_remaining_seconds(hdo, ref)
    [] op = "get_next_low_tariff_seconds" -> get_next_low_tariff_seconds(hdo, ref)
    [] op = "get_next_high_tariff_seconds" -> get_next_high_tariff_seconds(hdo, ref)

\* a countdown query on entity e: the state snapshot at `now`, the query's own
\* now() up to MaxDrift ticks later (the drift stays inside the query: it is
\* below the resolution of the clock's stops)
Query(e, op, drift) ==
  /\ ent[e].created
  /\ LET hdo == get_hdo_data(ent[e], conf_signal, now)
         ref == now + drift
     IN last' = [op |-> op, e |-> e, hdo |-> hdo, snap |-> now, ref |-> ref,
                 value |-> QueryValue(op, hdo, ref),
                 isHdo_calls |-> isHdoCalls(ent[e])]
  /\ UNCHANGED <<now, conf_signal, ent, cache, hass_entities, daily_refresh, refresh_due,
                 frontend>>

\* the state write of a sensor reads its native_value: hdo_data[1] for
\* LowTariffStart, get_low_tariff_remaining_seconds() for LowTariffRemaining
native_value(e) ==
  /\ ent[e].added
  /\ \E drift \in IF IsFrequent(e) THEN 0..MaxDrift ELSE {0} :
       LET hdo == get_hdo_data(ent[e], conf_signal, now)
           ref == now + drift
       IN last' = [op |-> "native_value", e |-> e, hdo |-> hdo, snap |-> now, ref |-> ref,
                   value |-> IF IsFrequent(e)
                             THEN get_low_tariff_remaining_seconds(hdo, ref)
                             ELSE hdo.low_start]
  /\ UNCHANGED <<now, conf_signal, ent, cache, hass_entities, daily_refresh, refresh_due,
                 frontend>>

Next ==
  \/ Tick
  \/ async_setup
  \/ setup_platform
  \/ \E e \in EntitySet : async_will_remove_from_hass(e)
  \/ \E e \in EntitySet : Poll(e)
  \/ daily_data_refresh
  \/ \E e \in EntitySet : native_value(e)

Spec == Init /\ [][Next]_vars

\* ------------------------------------------------------------- the countdown queries alone
\* the entities as constructed outside the platform, CezHdoBaseEntity(ean,
\* name, signal), on FirstDay; the clock then runs and the queries are called
InitCountdown ==
  /\ now = FirstDay * TicksPerDay
  /\ conf_signal \in {NoSignal, "X", "Z"}
  /\ \E cch \in InitCaches : \E env \in Envs(FirstLoadable(cch) = 0, now) :
       LET c1 == Construct(Entities[1], cch, now, env)
           c2 == Construct(Entities[2], c1.cache, now, env)
       IN /\ ent = [e \in EntitySet |-> IF e = Entities[1] THEN c1.er ELSE c2.er]
          /\ cache = c2.cache
  /\ hass_entities = <<>>
  /\ daily_refresh = FALSE
  /\ refresh_due = FALSE
  /\ frontend = [registered |-> FALSE, urls |-> 0]
  /\ last = [op |-> "init"]

LowTariffRemaining ==
  \E e \in EntitySet, d \in 0..MaxDrift : Query(e, "get_low_tariff_remaining_seconds", d)
HighTariffRemaining ==
  \E e \in EntitySet, d \in 0..MaxDrift : Query(e, "get_high_tariff_remaining_seconds", d)
NextLowTariffCountdown ==
  \E e \in EntitySet, d \in 0..MaxDrift : Query(e, "get_next_low_tariff_seconds", d)
NextHighTariffCountdown ==
  \E e \in EntitySet, d \in 0..MaxDrift : Query(e, "get_next_high_tariff_seconds", d)

NextCountdown ==
  \/ Tick
  \/ LowTariffRemaining
  \/ HighTariffRemaining
  \/ NextLowTariffCountdown
  \/ NextHighTariffCountdown

SpecCountdown == InitCountdown /\ [][NextCountdown]_vars

\* ------------------------------------------------------------- lifecycle calls in any order
\* The async_setup coroutines of one process, each suspended at one of its
\* awaits, then the lifecycle methods of the entity objects called in any
\* order.  The entities were constructed while no cache file existed and the
\* API did not answer.
SetupStart == "start"            \* not called yet
SetupDeploy1 == "deploy1"         \* awaiting _deploy_frontend_file, line 35 -> 193
SetupScheduled == "scheduled"     \* daily refresh registered, before line 61
SetupDeploy2 == "deploy2"         \* awaiting _deploy_frontend_file, line 61 -> 193
SetupDone == "done"               \* services registered, returned True

InitLifecycle ==
  /\ now = FirstDay * TicksPerDay
  /\ conf_signal = NoSignal
  /\ cache = [p \in CachePaths |-> NoFile]
  /\ \E env \in {x \in Envs(TRUE, now) : ~ApiLoop(0, x.responses).stored} :
       ent = [e \in EntitySet |-> Construct(e, cache, now, env).er]
  /\ hass_entities = <<>>
  /\ daily_refresh = FALSE
  /\ refresh_due = FALSE
  /\ frontend = [registered |-> FALSE, urls |-> 0,
                 setup |-> [i \in 1..MaxSetups |-> SetupStart]]
  /\ last = [op |-> "init"]

\* `await _deploy_frontend_file(hass)` inside _ensure_frontend_card: the file
\* is copied in an executor job and the coroutine is suspended
deploy_frontend_file(i) ==
  /\ frontend.setup[i] \in {SetupStart, SetupScheduled}
  /\ frontend' = [frontend EXCEPT !.setup[i] =
                     IF @ = SetupStart THEN SetupDeploy1 ELSE SetupDeploy2]
  /\ last' = [op |-> "deploy_frontend_file", i |-> i]
  /\ UNCHANGED <<now, conf_signal, ent, cache, hass_entities, daily_refresh, refresh_due>>

\* the rest of _ensure_frontend_card and async_setup up to the next await:
\* the flag test and add_extra_js_url (which may raise: nothing is registered
\* and the flag stays unset), then the daily refresh or the services
ensure_frontend_card(i) ==
  /\ frontend.setup[i] \in {SetupDeploy1, SetupDeploy2}
  /\ \E raises \in BOOLEAN :
       LET fr == IF raises /\ ~frontend.registered THEN frontend
                 ELSE EnsureFrontendCard(frontend)
       IN /\ frontend' = [fr EXCEPT !.setup[i] =
                            IF @ = SetupDeploy1 THEN SetupScheduled ELSE SetupDone]
          /\ last' = [op |-> "ensure_frontend_card", i |-> i, raised |-> raises,
                      urls_before |-> frontend.urls]
  /\ daily_refresh' = TRUE
  /\ UNCHANGED <<now, conf_signal, ent, cache, hass_entities, refresh_due>>

\* the cez_hdo.reload_frontend_card service, registered by a finished
\* async_setup: _deploy_frontend_file only
reload_frontend_card ==
  /\ \E i \in 1..MaxSetups : frontend.setup[i] = SetupDone
  /\ last' = [op |-> "reload_frontend_card", urls_before |-> frontend.urls,
              registered_before |-> frontend.registered]
  /\ UNCHANGED <<now, conf_signal, ent, cache, hass_entities, daily_refresh, refresh_due,
                 frontend>>

\* the platform's entities are handled after the component is set up
ComponentSetUp == \A i \in 1..MaxSetups : frontend.setup[i] = SetupDone

async_added_to_hass(e) ==
  /\ ComponentSetUp
  /\ Len(ent[e].calls) < MaxCalls
  /\ ent' = [ent EXCEPT ![e] = AddedToHass(e, ent[e])]
  /\ hass_entities' = Register(hass_entities, e)
  /\ last' = [op |-> "async_added_to_hass", e |-> e]
  /\ UNCHANGED <<now, conf_signal, cache, daily_refresh, refresh_due, frontend>>

\* async_will_remove_from_hass called whatever the entity's state
will_remove_from_hass(e) ==
  /\ ComponentSetUp
  /\ Len(ent[e].calls) < MaxCalls
  /\ ent' = [ent EXCEPT ![e] = WillRemoveFromHass(e, ent[e])]
  /\ hass_entities' = Unregister(hass_entities, e)
  /\ last' = [op |-> "async_will_remove_from_hass", e |-> e]
  /\ UNCHANGED <<now, conf_signal, cache, daily_refresh, refresh_due, frontend>>

NextLifecycle ==
  \/ \E i \in 1..MaxSetups : deploy_frontend_file(i)
  \/ \E i \in 1..MaxSetups : ensure_frontend_card(i)
  \/ reload_frontend_card
  \/ \E e \in EntitySet : async_added_to_hass(e)
  \/ \E e \in EntitySet : will_remove_from_hass(e)

SpecLifecycle == InitLifecycle /\ [][NextLifecycle]_vars

\* ------------------------------------------------------------- one run of update()
\* update() as a function of the cache files, the API's answers and the
\* writable paths: the files found at each path are drawn from CacheFiles and
\* each entity is constructed, which runs update() for the first time
CacheFiles == {NoFile, Corrupt, JunkData, Sched("night", FirstDay - 1)}

InitUpdate ==
  /\ now = FirstDay * TicksPerDay
  /\ conf_signal = NoSignal
  /\ ent = [e \in EntitySet |-> NewEntity]
  /\ cache \in [CachePaths -> CacheFiles]
  /\ hass_entities = <<>>
  /\ daily_refresh = FALSE
  /\ refresh_due = FALSE
  /\ frontend = [registered |-> FALSE, urls |-> 0]
  /\ last = [op |-> "init"]

\* CezHdoBaseEntity(ean, name, signal): __init__ ends in self.update()
update(e) ==
  /\ ~ent[e].created
  /\ \E env \in Envs(ReadsApi(e, NewEntity, cache, now), now) :
       LET c == Construct(e, cache, now, env)
       IN /\ ent' = [ent EXCEPT ![e] = c.er]
          /\ cache' = c.cache
          /\ last' = [op |-> "update", e |-> e, responses |-> env.responses,
                      payload |-> env.payload, writable |-> env.writable,
                      cache_before |-> cache, out |-> c.out]
  /\ UNCHANGED <<now, conf_signal, hass_entities, daily_refresh, refresh_due, frontend>>

NextUpdate == \E e \in EntitySet : update(e)

SpecUpdate == InitUpdate /\ [][NextUpdate]_vars

\* ------------------------------------------------------------- properties
QueryOps == {"get_low_tariff_remaining_seconds", "get_high_tariff_remaining_seconds",
             "get_next_low_tariff_seconds", "get_next_high_tariff_seconds"}
IsQuery == last.op \in QueryOps
IsNumber(v) == v >= 0

\* the next instant after ref (ref itself excluded) whose time of day is tod
NextOccurrence(ref, tod) ==
  IF DayOf(ref) * TicksPerDay + tod > ref THEN DayOf(ref) * TicksPerDay + tod
  ELSE (DayOf(ref) + 1) * TicksPerDay + tod

\* the stored time of day a query counts down to
StoredTod(op, hdo) ==
  CASE op = "get_low_tariff_remaining_seconds" -> hdo.low_end
    [] op = "get_high_tariff_remaining_seconds" -> hdo.high_end
    [] op = "get_next_low_tariff_seconds" -> hdo.low_start
    [] op = "get_next_high_tariff_seconds" -> hdo.high_start

\* the absolute period around the snapshot instant of the last query
LastPeriod ==
  PeriodAround(Select(ent[last.e].response_data, conf_signal, last.snap), last.snap)

\* C1: while a tariff is active and its current period ends later on the same
\* calendar day, the 'remaining' query of that tariff returns the whole
\* seconds from the reference instant to the end of the period.
C1_RemainingUntilEnd ==
  /\ (last.op = "get_low_tariff_remaining_seconds" /\ last.hdo.low_active
        /\ DayOf(LastPeriod.e) = DayOf(last.ref) /\ LastPeriod.e > last.ref)
       => last.value = (LastPeriod.e - last.ref) \div TicksPerSecond
  /\ (last.op = "get_high_tariff_remaining_seconds" /\ last.hdo.high_active
        /\ DayOf(LastPeriod.e) = DayOf(last.ref) /\ LastPeriod.e > last.ref)
       => last.value = (LastPeriod.e - last.ref) \div TicksPerSecond

\* low tariff 08:00-20:00, queried at 10:00:00: 36000 seconds remain
C1_Witness ==
  /\ last.op = "get_low_tariff_remaining_seconds"
  /\ last.hdo.low_active /\ last.hdo.low_end = HMS(20, 0, 0)
  /\ last.ref = last.snap /\ TodOf(last.ref) = HMS(10, 0, 0)
  /\ last.value = 10 * 60 * 60

\* C2: while a tariff is not active and its next start time is known, the
\* 'next start' query returns the whole seconds from the reference instant to
\* the next occurrence of that time of day, on the next calendar day when the
\* time of day is not after the reference instant.
C2_NextStart ==
  /\ (last.op = "get_next_low_tariff_seconds" /\ ~last.hdo.low_active
        /\ last.hdo.low_start # None)
       => last.value
            = (NextOccurrence(last.ref, last.hdo.low_start) - last.ref) \div TicksPerSecond
  /\ (last.op = "get_next_high_tariff_seconds" /\ ~last.hdo.high_active
        /\ last.hdo.high_start # None)
       => last.value
            = (NextOccurrence(last.ref, last.hdo.high_start) - last.ref) \div TicksPerSecond

\* C3: a 'remaining' query returns None when its tariff is not active and a
\* 'next start' query returns None when its tariff is already active.
C3_NullWhenNotApplicable ==
  /\ (last.op = "get_low_tariff_remaining_seconds" /\ ~last.hdo.low_active)
       => last.value = None
  /\ (last.op = "get_high_tariff_remaining_seconds" /\ ~last.hdo.high_active)
       => last.value = None
  /\ (last.op = "get_next_low_tariff_seconds" /\ last.hdo.low_active)
       => last.value = None
  /\ (last.op = "get_next_high_tariff_seconds" /\ last.hdo.high_active)
       => last.value = None

\* "seconds until low ends" and "seconds until high starts" are None while
\* high is active
C3_Witness ==
  /\ last.op = "get_next_high_tariff_seconds"
  /\ last.hdo.high_active /\ last.hdo.high_start # None
  /\ last.value = None

\* C4 as stated: a query that returns a number returns one >= 0, and 0 only
\* when the reference instant is the boundary instant.
C4_ZeroOnlyAtBoundary ==
  (IsQuery /\ IsNumber(last.value))
    => /\ last.value >= 0
       /\ last.value = 0 => TodOf(last.ref) = StoredTod(last.op, last.hdo)

\* C4 as amended: a query that returns a number returns one >= 0, and 0 only
\* when the reference instant is less than one second before the next
\* occurrence of the boundary.
C4_ZeroOnlyInLastSecond ==
  (IsQuery /\ IsNumber(last.value))
    => /\ last.value >= 0
       /\ last.value = 0
            => LET target == NextOccurrence(last.ref, StoredTod(last.op, last.hdo))
               IN last.ref < target /\ target - last.ref < TicksPerSecond

C4_Witness ==
  /\ last.op = "get_low_tariff_remaining_seconds"
  /\ last.hdo.low_active
  /\ last.value = 0
  /\ last.ref > last.snap

\* C6: no countdown query ends in an exception.
C6_NoException == IsQuery => last.value # ValueError

\* C7: for a low period 22:00-06:00 published on day D, the state at
\* D 23:59:59 and at D+1 05:59:59 is active with the same start and end, and
\* get_low_tariff_remaining_seconds returns 21601 and 1.
C7_MidnightCrossing ==
  LET d == ent[last.e].response_data
      published(day) == d.kind = "sched" /\ d.pattern = "night"
                          /\ day \in PublishedDays(d.anchor)
                          /\ ent[last.e].last_update_success
                          /\ conf_signal \in {NoSignal, "X"}
      same == /\ last.hdo.low_active
              /\ last.hdo.low_start = HMS(22, 0, 0)
              /\ last.hdo.low_end = HMS(6, 0, 0)
  IN (last.op = "get_low_tariff_remaining_seconds" /\ last.ref = last.snap)
       => /\ (TodOf(last.ref) = HMS(23, 59, 59) /\ published(DayOf(last.ref)))
               => same /\ last.value = 6 * 60 * 60 + 1
          /\ (TodOf(last.ref) = HMS(5, 59, 59) /\ published(DayOf(last.ref) - 1))
               => same /\ last.value = 1

\* the entity whose native_value was read last holds no usable payload
LastUnavailable ==
  ent[last.e].response_data = NoData \/ ~ent[last.e].last_update_success

\* C5: without a payload, and after a failed update() even with an older
\* payload still stored, the state handed to the sensor is the unresolved one
\* and all four countdown queries return None.
C5_UnresolvedGivesNull ==
  (last.op = "native_value" /\ LastUnavailable)
    => /\ last.hdo = Unresolved
       /\ \A op \in QueryOps : \A d \in 0..MaxDrift :
            QueryValue(op, last.hdo, last.snap + d) = None

\* a sensor is read after a failed update() that left an older schedule stored
C5_Witness ==
  /\ last.op = "native_value"
  /\ ent[last.e].response_data.kind = "sched"
  /\ ~ent[last.e].last_update_success
  /\ last.value = None

\* the payload of the entity read last, its update having succeeded
LastStored == ent[last.e].response_data # NoData /\ ent[last.e].last_update_success

\* ... and holding a window of the selected signal for yesterday, today or
\* tomorrow
LastResolved ==
  LastStored /\ Select(ent[last.e].response_data, conf_signal, last.snap) # {}

\* C8 as stated: exactly one of low_active / high_active whenever a payload is
\* stored and the last update succeeded; both false only otherwise.
C8_ExactlyOneWhenStored ==
  last.op = "native_value"
    => /\ LastStored => (last.hdo.low_active # last.hdo.high_active)
       /\ (~last.hdo.low_active /\ ~last.hdo.high_active) => ~LastStored

\* C8 as amended: exactly one of low_active / high_active whenever the stored
\* payload resolves to a schedule of the selected signal; both false only
\* when it does not (no payload, failed update, or no window of the signal
\* within a day of the reference instant).
C8_ExactlyOneWhenResolved ==
  last.op = "native_value"
    => /\ LastResolved => (last.hdo.low_active # last.hdo.high_active)
       /\ (~last.hdo.low_active /\ ~last.hdo.high_active) => ~LastResolved

\* a sensor is read while its entity holds a schedule of the selected signal
\* and low tariff is active
C8_Witness ==
  /\ last.op = "native_value"
  /\ LastResolved
  /\ last.hdo.low_active /\ ~last.hdo.high_active

\* C9: a time-remaining entity created while a cache file is loadable or the
\* API answers holds the payload and is available.
C9_FrequentEntityHoldsPayload ==
  (last.op = "setup_platform" /\ (last.cache_loadable \/ last.api_ok))
    => \A e \in EntitySet :
         IsFrequent(e) => ent[e].last_update_success /\ ent[e].response_data # NoData

\* C10: the 01:00:00 refresh makes every registered entity run its update
\* body and ask the API.
C10_DailyRefreshAsksApi ==
  last.op = "daily_data_refresh"
    => \A i \in 1..Len(last.entities) :
         /\ last.out[last.entities[i]].ran
         /\ last.out[last.entities[i]].requests >= 1

C12_NoReparse == IsQuery => last.isHdo_calls = 0

\* the last lifecycle call made on entity e, "none" before the first
LastCall(e) ==
  IF ent[e].calls = <<>> THEN "none" ELSE ent[e].calls[Len(ent[e].calls)]

\* C13: hass.data["cez_hdo"]["entities"] holds each entity at most once,
\* holds every entity whose last lifecycle call was an add and no entity whose
\* last lifecycle call was a remove.
C13_RegistryFollowsLifecycle ==
  /\ \A i, j \in 1..Len(hass_entities) : hass_entities[i] = hass_entities[j] => i = j
  /\ \A e \in EntitySet :
       /\ LastCall(e) = "add" => \E i \in 1..Len(hass_entities) : hass_entities[i] = e
       /\ LastCall(e) = "remove" => \A i \in 1..Len(hass_entities) : hass_entities[i] # e

\* an entity added twice in a row is registered once, beside one removed again
C13_Witness ==
  /\ ent["LowTariffStart"].calls = <<"add", "add">>
  /\ ent["LowTariffRemaining"].calls = <<"add", "remove">>
  /\ hass_entities = <<"LowTariffStart">>

\* the body of update() ran in the last step
UpdateRan == last.op = "update" /\ last.out.ran

\* the cache paths whose file existed and parsed as JSON before the run
ParsedBefore == {p \in CachePaths : last.cache_before[p].kind \notin {"absent", "corrupt"}}

\* C14: the first cache path, in the order of the list, whose file parses as
\* JSON becomes _response_data with _last_update_success = True and no API
\* request is made; the API is contacted only when no cache path loads.
C14_CacheFirst ==
  UpdateRan
    => /\ ParsedBefore # {}
            => LET first == CHOOSE p \in ParsedBefore : \A q \in ParsedBefore : p <= q
               IN /\ ent[last.e].response_data = last.cache_before[first]
                  /\ ent[last.e].last_update_success
                  /\ last.out.requests = 0
                  /\ cache = last.cache_before
       /\ last.out.requests >= 1 => ParsedBefore = {}

\* an unreadable file at path 1, a JSON document at path 2 and a schedule at
\* path 3: the document of path 2 is stored
C14_Witness ==
  /\ UpdateRan
  /\ last.cache_before[1] = Corrupt
  /\ last.cache_before[2] = JunkData
  /\ last.cache_before[3].kind = "sched"
  /\ ent[last.e].response_data = JunkData
  /\ last.out.requests = 0

\* C15: one run makes at most 2 API requests, the second only after a 502 or a
\* requests.RequestException on the first; after any other failure of the
\* first request there is no second one and _last_update_success is False.
C15_RetryOnlyAfter502OrNetworkError ==
  (UpdateRan /\ last.out.cache_hit = 0)
    => /\ last.out.requests <= 2
       /\ last.out.requests = 2 => last.responses[1] \in {"502", "request_exc"}
       /\ last.responses[1] \in {"empty_signals", "unparsable", "other_status", "other_exc"}
            => /\ last.out.requests = 1
               /\ ~ent[last.e].last_update_success

\* a 502 answered by a retry that returns an unparsable body
C15_Witness ==
  /\ UpdateRan
  /\ last.responses = <<"502", "unparsable">>
  /\ last.out.requests = 2
  /\ ~ent[last.e].last_update_success

\* a request of the last run returned 200 with at least one signal
GotSignals ==
  \/ last.responses[1] = "ok"
  \/ last.responses[1] \in {"502", "request_exc"} /\ last.responses[2] = "ok"

\* C16: after a 200 response with signals the payload is stored,
\* _last_update_success is True and the payload is written to the first cache
\* path whose write succeeds and to no other; when no write succeeds the
\* files stay as they were and the update is still successful.
C16_StoredAndCachedOnce ==
  (UpdateRan /\ last.out.cache_hit = 0 /\ GotSignals)
    => /\ ent[last.e].response_data = last.payload
       /\ ent[last.e].last_update_success
       /\ IF last.writable = {} THEN cache = last.cache_before
          ELSE LET w == CHOOSE p \in last.writable : \A q \in last.writable : p <= q
               IN /\ cache[w] = last.payload
                  /\ \A p \in CachePaths \ {w} : cache[p] = last.cache_before[p]
                  /\ {p \in CachePaths : cache[p] = last.payload} = {w}

\* the first two paths cannot be written: the payload lands at the third
C16_Witness ==
  /\ UpdateRan /\ GotSignals
  /\ last.writable = {3, 4}
  /\ cache[3] = last.payload
  /\ cache[4] = NoFile
  /\ ent[last.e].last_update_success

\* C17: add_extra_js_url is called at most once in the process, however the
\* async_setup coroutines and their _ensure_frontend_card calls interleave, and
\* the reload_frontend_card service registers nothing.
C17_RegisteredAtMostOnce ==
  /\ frontend.urls <= 1
  /\ last.op = "reload_frontend_card"
       => /\ frontend.urls = last.urls_before
          /\ frontend.registered = last.registered_before

\* every async_setup has returned, the URL is registered once and the service
\* has been called
C17_Witness ==
  /\ ComponentSetUp
  /\ frontend.registered /\ frontend.urls = 1
  /\ last.op = "reload_frontend_card"

\* the timers entity e started that have not been cancelled
ActiveTimers(e) == {i \in 1..Len(ent[e].timers) : ent[e].timers[i] = 0}

\* one active timer after an add, none before the first add and after a
\* remove, and no timer cancelled twice
OneTimerWhileAdded(e) ==
  /\ LastCall(e) = "add" => Cardinality(ActiveTimers(e)) = 1
  /\ LastCall(e) # "add" => ActiveTimers(e) = {}
  /\ \A i \in 1..Len(ent[e].timers) : ent[e].timers[i] <= 1

\* C18 as stated: for any sequence of add/remove calls a time-remaining entity
\* has exactly one active timer from async_added_to_hass until
\* async_will_remove_from_hass, none afterwards, and each timer is cancelled
\* exactly once.
C18_OneTimerAnySequence ==
  \A e \in EntitySet : IsFrequent(e) => OneTimerWhileAdded(e)

\* the calls alternate, starting with an add
Alternating(calls) ==
  \A i \in 1..Len(calls) : calls[i] = IF i % 2 = 1 THEN "add" ELSE "remove"

\* C18 as amended: the same, for the sequences in which the entity is added
\* only while not added and removed only while added.
C18_OneTimerAlternating ==
  \A e \in EntitySet :
    (IsFrequent(e) /\ Alternating(ent[e].calls)) => OneTimerWhileAdded(e)

\* added, removed and added again: the first timer is cancelled, the second
\* one is active
C18_Witness ==
  \E e \in EntitySet :
    /\ IsFrequent(e)
    /\ ent[e].calls = <<"add", "remove", "add">>
    /\ ent[e].timers = <<1, 0>>
    /\ ent[e].update_interval_unsub = 2

\* C19: every number a countdown query returns is the whole seconds to the
\* next occurrence of the stored time of day, and lies in 0..86400.
C19_WithinOneDay ==
  (IsQuery /\ IsNumber(last.value))
    => /\ last.value \in 0..SecondsPerDay
       /\ LET target == NextOccurrence(last.ref, StoredTod(last.op, last.hdo))
          IN /\ target - last.ref <= TicksPerDay
             /\ last.value = (target - last.ref) \div TicksPerSecond

\* a query whose stored time of day has passed today returns the seconds to
\* its occurrence on the next calendar day
C19_Witness ==
  /\ IsQuery /\ IsNumber(last.value)
  /\ DayOf(NextOccurrence(last.ref, StoredTod(last.op, last.hdo))) = DayOf(last.ref) + 1
  /\ last.value > 12 * 60 * 60

\* C20: an entity whose _last_update_success is True holds a payload with at
\* least one signal entry.
C20_SuccessImpliesSignals ==
  \A e \in EntitySet :
    ent[e].last_update_success => ent[e].response_data.kind = "sched"

====
